---- MODULE Spec2Model ----
(***************************************************************************)
(* State-machine model of anime_image_manager: AnimeImageManager           *)
(* (main.py), GoogleDriveHandler, TraceMoeHandler and FirebaseHandler.      *)
(*                                                                         *)
(* One process runs process_folder on one asyncio event loop.  A coroutine *)
(* runs without interruption from one suspension point to the next, so one *)
(* action is one such segment.  The process can be killed anywhere, also   *)
(* inside a segment, and be started again; progress.json, the Drive file   *)
(* names and the Firebase records survive.                                 *)
(*                                                                         *)
(* Time is discrete.  The numbers of config.py are read from the           *)
(* environment (os.getenv); the model runs a small configuration.          *)
(***************************************************************************)
EXTENDS Integers, Sequences, FiniteSets, TLC

\* ---------------------------------------------------------------- config
TRACE_MOE_RATE_LIMIT == 2
MAX_RETRIES == 3
RETRY_DELAY == 1
\* BATCH_SIZE and CONCURRENT_LIMIT are read from the environment: the values explored.
Configs ==
    { [BATCH_SIZE |-> 3, CONCURRENT_LIMIT |-> 2],
      [BATCH_SIZE |-> 3, CONCURRENT_LIMIT |-> 3],
      [BATCH_SIZE |-> 2, CONCURRENT_LIMIT |-> 2] }

\* ---------------------------------------------------------------- bounds
\* The folder holds at most MaxItems images; at most MaxRuns processes are started;
\* error_count is followed up to MaxErrors; the environment injects at most MaxFaults
\* faults (a kill, a file whose download fails, a failing call of trace.moe, Drive or
\* Firebase, a failing write of progress.json) in one behaviour.
MaxItems == 3
MaxRuns == 2
MaxErrors == 3
MaxFaults == 2
\* start_index is followed up to MaxStartPages pages (every larger offset walks the
\* token chain to the same end); skipped_count is followed up to MaxSkipped.
MaxStartPages == 4
MaxSkipped == 6

VARIABLES
    \* the environment of a run: configuration, the Drive folder, trace.moe
    BATCH_SIZE,         \* Config.BATCH_SIZE
    CONCURRENT_LIMIT,   \* Config.CONCURRENT_LIMIT
    nItems,             \* the folder holds the images 1..nItems, listed in this order
    endToken,           \* the last non-empty page carries a nextPageToken (to an empty page)
    noMatch,            \* the images trace.moe has no match for
    \* what survives the process
    names,              \* Drive: the name of each image
    file,               \* progress.json
    recorded,           \* Firebase: how many records were pushed for each image (0, 1, 2 = more)
    \* AnimeImageManager
    phase,              \* where process_folder stands
    start_index,
    total_processed,
    processed_files,
    processed_count,
    error_count,
    skipped_count,      \* process_folder: the local skipped_count
    \* get_images_from_folder: the downloads of the page being fetched
    dl,
    \* process_folder: the page's filtered images and the offset of the current batch
    unprocessed,
    bi,
    \* the process_single_image tasks of the current batch
    task,
    wake,               \* remaining sleep of a task inside _rate_limit
    pauseLeft,          \* remaining sleep of process_folder after a batch
    \* TraceMoeHandler: now - _last_request_time, capped at TRACE_MOE_RATE_LIMIT
    sinceLast,
    \* history of the run (observations, never read by the program)
    run,                \* number of the process started
    faults,             \* faults injected so far
    sinceReq,           \* time since the last recognition request started, capped
    minGap,             \* smallest gap seen between two consecutive recognition requests
    recCalls,           \* identify_image requests per image in this run (0, 1, 2 = more)
    listCount,          \* listings-with-download per page in this run (0, 1, 2 = more)
    itemFailed,         \* an item ended Failed in this run
    otherFailed,        \* a step other than a no-match recognition failed in this run
    prevRun,            \* how the previous process ended: "none", "clean", "failed", "killed"
    crashIn,            \* where the process was killed: "none", "save_progress", "elsewhere"
    lastFlushed,        \* the ids of the last completely written progress.json
    loadedIds,          \* the ids progress.json held when this process loaded it
    \* what the process shows to its user
    exit_code,          \* the exit status of the process, NoExit while it runs
    cause,              \* why the process ended: "none", "done", "config", "handlers",
                        \* "folder", "error", "interrupt", "killed"
    shown               \* the last report printed: "none", "folders", "summary"

envVars == <<BATCH_SIZE, CONCURRENT_LIMIT, nItems, endToken, noMatch>>
diskVars == <<names, file, recorded>>
mgrVars == <<phase, start_index, total_processed, processed_files, processed_count, error_count,
            skipped_count>>
pageVars == <<dl, unprocessed, bi>>
taskVars == <<task, wake, pauseLeft, sinceLast>>
histVars == <<run, faults, sinceReq, minGap, recCalls, listCount, itemFailed, otherFailed, prevRun, crashIn, lastFlushed, loadedIds>>
outVars == <<exit_code, cause, shown>>
vars == <<envVars, diskVars, mgrVars, pageVars, taskVars, histVars, outVars>>

Items == 1..nItems

Min(a, b) == IF a < b THEN a ELSE b

Sat2(n) == Min(n + 1, 2)

\* ---------------------------------------------------------------- names
\* A file name is a sequence of tokens.
RawName == <<"IMG", ".jpg">>

\* TraceMoeHandler._get_episode: f"{episode:02d}", the digits of the number padded
\* to two places.
GetEpisode(episode) == [digits |-> episode, width |-> IF episode < 100 THEN 2 ELSE 3]

\* Faulty variant of FormatTimestamp: the last field is the whole number of seconds.
FormatTimestampRawSeconds(seconds) ==
    LET total_seconds == seconds
        hours == total_seconds \div 3600
        minutes == (total_seconds % 3600) \div 60
    IN  <<hours, minutes, total_seconds>>

\* TraceMoeHandler._format_timestamp: seconds to the fields of HH:MM:SS.
FormatTimestamp(seconds) ==
    LET total_seconds == seconds
        hours == total_seconds \div 3600
        minutes == (total_seconds % 3600) \div 60
    IN  <<hours, minutes, total_seconds % 60>>

\* The best match trace.moe returns for an image it knows.
BestMatch(i) == [title |-> "T", episode |-> i, from |-> 3600 * i + 61]

\* TraceMoeHandler.identify_image: the dictionary returned for a valid match.
IdentifyResult(m) ==
    [anime_title |-> m.title, episode |-> GetEpisode(m.episode),
     timestamp |-> FormatTimestamp(m.from)]

\* Faulty variant of NewName: the new name is built without the _Episode marker.
NewNameNoEpisode(result) ==
    <<result.anime_title, "_", result.episode, "_", result.timestamp, ".jpg">>

\* process_single_image: f"{anime_title}_Episode{episode}_{timestamp}.jpg"
NewName(result) ==
    <<result.anime_title, "_Episode", result.episode, "_", result.timestamp, ".jpg">>

\* \d{2}: a field printed with exactly two digits.
TwoDigits(x) == x \in 0..99

\* Faulty variant of IsAlreadyProcessed: only the second pattern of the code,
\* Anime_\d+_Episode\d+_\d{2}:\d{2}:\d{2}\.jpg$, is tested.
IsAlreadyProcessedAnimeOnly(filename) ==
    /\ Len(filename) = 6
    /\ filename[1] = "Anime_1"
    /\ filename[2] = "_Episode"
    /\ filename[3].digits >= 0
    /\ filename[4] = "_"
    /\ \A k \in 1..3 : TwoDigits(filename[5][k])
    /\ filename[6] = ".jpg"

\* _is_already_processed: .*_Episode\d+_\d{2}:\d{2}:\d{2}\.jpg$ (every name the
\* second pattern of the code matches is matched by this first one).
IsAlreadyProcessed(filename) ==
    LET n == Len(filename) IN
    /\ n >= 5
    /\ filename[n - 4] = "_Episode"
    /\ filename[n - 3].digits >= 0
    /\ filename[n - 2] = "_"
    /\ \A k \in 1..3 : TwoDigits(filename[n - 1][k])
    /\ filename[n] = ".jpg"

\* ---------------------------------------------------------------- progress.json
NoFile == [kind |-> "absent", ids |-> {}, pc |-> 0, ec |-> 0]

TornFile == [kind |-> "torn", ids |-> {}, pc |-> 0, ec |-> 0]

\* save_progress: the data json.dump writes.
ProgressData(pf, pc, ec) == [kind |-> "json", ids |-> pf, pc |-> pc, ec |-> ec]

\* save_progress: what progress.json holds afterwards.  open(..., 'w') truncates the
\* file and json.dump writes into it; an exception is logged and swallowed, leaving
\* the file as it was (open failed) or cut (the write failed).
SaveProgress(f, pf, pc, ec) == {ProgressData(pf, pc, ec), f, TornFile}

\* Faulty variant of LoadProgress: the counters are restored, the ids are not.
LoadProgressCountersOnly(f) ==
    IF f.kind = "json"
    THEN [processed_files |-> {}, processed_count |-> f.pc, error_count |-> f.ec]
    ELSE [processed_files |-> {}, processed_count |-> 0, error_count |-> 0]

\* Faulty variant of LoadProgress: a file that cannot be read leaves a count behind.
LoadProgressKeepsCount(f) ==
    IF f.kind = "json"
    THEN [processed_files |-> f.ids, processed_count |-> f.pc, error_count |-> f.ec]
    ELSE [processed_files |-> {}, processed_count |-> 1, error_count |-> 0]

\* load_progress: the state of a manager after __init__.  A missing file leaves the
\* empty state; so does a file json.load cannot parse (the exception is swallowed).
LoadProgress(f) ==
    IF f.kind = "json"
    THEN [processed_files |-> f.ids, processed_count |-> f.pc, error_count |-> f.ec]
    ELSE [processed_files |-> {}, processed_count |-> 0, error_count |-> 0]

\* ---------------------------------------------------------------- Drive listing
NoToken == 0

NumPages == (nItems + BATCH_SIZE - 1) \div BATCH_SIZE

\* files().list(pageToken = p): the files of page p; token NoToken is the first page.
PageFiles(p) == {i \in Items : (i - 1) \div BATCH_SIZE = p}

\* The nextPageToken of the listing of page p.
NextPageToken(p) ==
    IF p + 1 < NumPages THEN p + 1
    ELSE IF endToken /\ p + 1 = NumPages THEN p + 1
    ELSE NoToken

\* _get_page_token: the loop body, k iterations left.
RECURSIVE WalkTokens(_, _)
WalkTokens(page_token, k) ==
    IF k = 0 THEN page_token
    ELSE LET next == NextPageToken(page_token) IN
         IF next = NoToken THEN NoToken ELSE WalkTokens(next, k - 1)

\* _get_page_token
GetPageToken(si) ==
    IF si = 0 THEN NoToken ELSE WalkTokens(NoToken, si \div BATCH_SIZE)

\* The images 1..nItems in listing order.
ItemSeq == [k \in 1..nItems |-> k]


\* ---------------------------------------------------------------- faults
\* The environment injects one more fault.
Fault == faults < MaxFaults /\ faults' = faults + 1

NoFault == faults' = faults

\* ---------------------------------------------------------------- downloads
Idle == [st |-> "idle", n |-> 0, t |-> 0]

\* _download_file_async: the attempt after attempt d.n, or None after MAX_RETRIES.
NextAttempt(d) ==
    IF d.n + 1 < MAX_RETRIES
    THEN [st |-> "try", n |-> d.n + 1, t |-> 0]
    ELSE [st |-> "fail", n |-> 0, t |-> 0]

\* _download_file_async: one pass of the retry loop.  Status 200 returns the image;
\* another status logs and goes on to the next pass at once; an exception sleeps
\* before the next pass.
DownloadResult(d, r) ==
    CASE r = "200" -> [st |-> "ok", n |-> 0, t |-> 0]
      [] r = "status" -> NextAttempt(d)
      [] r = "exception" -> [st |-> "sleep", n |-> d.n, t |-> RETRY_DELAY]

\* ---------------------------------------------------------------- filter and batches
\* Faulty variant of Unprocessed: the name of the image is not looked at.
UnprocessedIdOnly(i, pf, nm) == i \notin pf

\* process_folder: the test of the list comprehension that keeps an image.
Unprocessed(i, pf, nm) == i \notin pf /\ ~IsAlreadyProcessed(nm[i])

\* process_folder: unprocessed_images
FilterPage(images, pf, nm) ==
    LET Keep(i) == Unprocessed(i, pf, nm) IN SelectSeq(images, Keep)

\* process_folder: unprocessed_images[i:i + Config.CONCURRENT_LIMIT]
Batch(unp, i) == SubSeq(unp, i + 1, Min(i + CONCURRENT_LIMIT, Len(unp)))

\* ---------------------------------------------------------------- rate limiter
\* _rate_limit: the delay computed from time_since_last_request.
RateLimitDelay(since) ==
    IF since < TRACE_MOE_RATE_LIMIT THEN TRACE_MOE_RATE_LIMIT - since ELSE 0

\* identify_image after _rate_limit returned: _last_request_time is set to now and
\* the request is posted.
SendRequest(s, i) ==
    [s EXCEPT !.task[i] = "req",
              !.sinceLast = 0,
              !.minGap = Min(s.minGap, s.sinceReq),
              !.sinceReq = 0,
              !.recCalls[i] = Sat2(@)]

\* process_single_image up to its first suspension: the test of processed_files,
\* then identify_image and _rate_limit, which sleeps or lets the request go.
StartTask(s, i) ==
    IF i \in processed_files
    THEN [s EXCEPT !.task[i] = "ret_none"]
    ELSE IF RateLimitDelay(s.sinceLast) > 0
         THEN [s EXCEPT !.task[i] = "sleep", !.wake[i] = RateLimitDelay(s.sinceLast)]
         ELSE SendRequest(s, i)

\* asyncio.gather: the tasks start in order, each running to its first suspension.
RECURSIVE StartTasks(_, _)
StartTasks(s, batch) ==
    IF batch = <<>> THEN s
    ELSE StartTasks(StartTask(s, Head(batch)), Tail(batch))

Limiter ==
    [task |-> task, wake |-> wake, sinceLast |-> sinceLast, sinceReq |-> sinceReq,
     minGap |-> minGap, recCalls |-> recCalls]

SetLimiter(s) ==
    /\ task' = s.task
    /\ wake' = s.wake
    /\ sinceLast' = s.sinceLast
    /\ sinceReq' = s.sinceReq
    /\ minGap' = s.minGap
    /\ recCalls' = s.recCalls


\* ---------------------------------------------------------------- start of a process
\* The exit status of a process that has not ended.
NoExit == -1

\* main is entered with progress.json = f, in an environment that has injected nf
\* faults: the state AnimeImageManager.__init__ builds (counters, load_progress).
InitFaults(f, nf) ==
    /\ \E c \in Configs :
          /\ BATCH_SIZE = c.BATCH_SIZE
          /\ CONCURRENT_LIMIT = c.CONCURRENT_LIMIT
    /\ nItems \in 0..MaxItems
    /\ endToken \in BOOLEAN
    /\ noMatch \in SUBSET (1..nItems)
    /\ names = [i \in 1..nItems |-> RawName]
    /\ file = f
    /\ recorded = [i \in 1..nItems |-> 0]
    /\ phase = "start"
    /\ start_index = 0
    /\ total_processed = 0
    /\ skipped_count = 0
    /\ exit_code = NoExit
    /\ cause = "none"
    /\ shown = "none"
    /\ processed_files = LoadProgress(f).processed_files
    /\ processed_count = LoadProgress(f).processed_count
    /\ error_count = LoadProgress(f).error_count
    /\ dl = [i \in 1..nItems |-> Idle]
    /\ unprocessed = <<>>
    /\ bi = 0
    /\ task = [i \in 1..nItems |-> "none"]
    /\ wake = [i \in 1..nItems |-> 0]
    /\ pauseLeft = 0
    /\ sinceLast = TRACE_MOE_RATE_LIMIT
    /\ run = 1
    /\ faults = nf
    /\ sinceReq = TRACE_MOE_RATE_LIMIT
    /\ minGap = TRACE_MOE_RATE_LIMIT
    /\ recCalls = [i \in 1..nItems |-> 0]
    /\ listCount = [p \in 0..MaxItems |-> 0]
    /\ itemFailed = FALSE
    /\ otherFailed = FALSE
    /\ prevRun = "none"
    /\ crashIn = "none"
    /\ lastFlushed = f.ids
    /\ loadedIds = f.ids

InitWith(f) == InitFaults(f, 0)

\* The first process: no progress.json yet.
Init == InitWith(NoFile)

\* The memory of a process that is gone or has just started.
FreshMemory ==
    /\ start_index' = 0
    /\ total_processed' = 0
    /\ skipped_count' = 0
    /\ dl' = [i \in Items |-> Idle]
    /\ unprocessed' = <<>>
    /\ bi' = 0
    /\ task' = [i \in Items |-> "none"]
    /\ wake' = [i \in Items |-> 0]
    /\ pauseLeft' = 0
    /\ sinceLast' = TRACE_MOE_RATE_LIMIT
    /\ sinceReq' = TRACE_MOE_RATE_LIMIT
    /\ minGap' = TRACE_MOE_RATE_LIMIT
    /\ recCalls' = [i \in Items |-> 0]
    /\ listCount' = [p \in 0..MaxItems |-> 0]

\* The ways a process ends before its time, with the exit status of each.  SIGKILL
\* ends it with status 137.  Ctrl-C ends it with status 0 when KeyboardInterrupt is
\* raised in the code the main task runs itself (main catches it, sys.exit(0)); raised
\* in a gathered task or out of asyncio.run, which cancels the main task first, it
\* passes the except Exception of the last lines of main.py and the status is 130.
\* An exception in process_folder outside the handlers makes it return False, and
\* main calls sys.exit(1).
Killed == [cause |-> "killed", code |-> 137]

InterruptCaught == [cause |-> "interrupt", code |-> 0]

InterruptUncaught == [cause |-> "interrupt", code |-> 130]

RunTimeError == [cause |-> "error", code |-> 1]

\* The process ends at once, in one of the ways of ends.
Dies(where, ends) ==
    /\ phase' = "dead"
    /\ crashIn' = where
    /\ \E e \in ends : cause' = e.cause /\ exit_code' = e.code
    /\ shown' = shown
    /\ processed_files' = {}
    /\ processed_count' = 0
    /\ error_count' = 0
    /\ itemFailed' = FALSE
    /\ otherFailed' = FALSE
    /\ FreshMemory
    /\ Fault
    /\ UNCHANGED <<envVars, run, prevRun, loadedIds>>

Running == phase \in {"start", "list", "download", "dispatch", "batch", "pause"}

\* Killed between two segments.
Kill ==
    /\ Running
    /\ Dies("elsewhere", {Killed, InterruptCaught, InterruptUncaught, RunTimeError})
    /\ UNCHANGED <<diskVars, lastFlushed>>

\* main: a new process; __init__ loads progress.json and process_folder starts.
Restart ==
    /\ phase \in {"dead", "done"}
    /\ run < MaxRuns
    /\ run' = run + 1
    /\ prevRun' = IF phase = "dead" THEN "killed"
                  ELSE IF itemFailed THEN "failed" ELSE "clean"
    /\ phase' = "start"
    /\ exit_code' = NoExit
    /\ cause' = "none"
    /\ shown' = "none"
    /\ processed_files' = LoadProgress(file).processed_files
    /\ processed_count' = LoadProgress(file).processed_count
    /\ error_count' = LoadProgress(file).error_count
    /\ loadedIds' = IF file.kind = "json" THEN file.ids ELSE {}
    /\ itemFailed' = FALSE
    /\ otherFailed' = FALSE
    /\ crashIn' = "none"
    /\ FreshMemory
    /\ UNCHANGED <<envVars, diskVars, faults, lastFlushed>>

\* ---------------------------------------------------------------- start of a run
\* Faulty variant of Startup: a failed folder check returns False without the call
\* of list_available_folders.
StartupSilent ==
    /\ phase = "start"
    /\ \/ /\ phase' = "list"
          /\ skipped_count' = Min(Cardinality(processed_files), MaxSkipped)
          /\ UNCHANGED outVars
       \/ /\ phase' = "aborted"
          /\ cause' \in {"config", "handlers", "folder"}
          /\ exit_code' = 1
          /\ UNCHANGED <<skipped_count, shown>>
    /\ UNCHANGED <<envVars, diskVars, start_index, total_processed, processed_files,
                   processed_count, error_count, pageVars, taskVars, histVars>>

\* main up to the while loop of process_folder.  validate_config calls sys.exit(1)
\* for a missing setting or credentials file; a handler that cannot be built makes
\* __init__ raise and main call sys.exit(1); when check_folder_exists returns False,
\* process_folder calls list_available_folders and returns False, and main calls
\* sys.exit(1).  Otherwise skipped_count = len(self.processed_files) and the loop is
\* entered.
Startup ==
    /\ phase = "start"
    /\ \/ /\ phase' = "list"
          /\ skipped_count' = Min(Cardinality(processed_files), MaxSkipped)
          /\ UNCHANGED outVars
       \/ /\ phase' = "aborted"
          /\ cause' \in {"config", "handlers"}
          /\ exit_code' = 1
          /\ UNCHANGED <<skipped_count, shown>>
       \/ /\ phase' = "aborted"
          /\ cause' = "folder"
          /\ exit_code' = 1
          /\ shown' = "folders"
          /\ UNCHANGED skipped_count
    /\ UNCHANGED <<envVars, diskVars, start_index, total_processed, processed_files,
                   processed_count, error_count, pageVars, taskVars, histVars>>

\* Faulty variant of Finish: process_folder returns False after the summary.
FinishReturnsFalse ==
    /\ phase' = "done"
    /\ exit_code' = 1
    /\ cause' = "done"
    /\ shown' = "summary"

\* The while loop is left: _print_summary, return True, and main ends with status 0.
Finish ==
    /\ phase' = "done"
    /\ exit_code' = 0
    /\ cause' = "done"
    /\ shown' = "summary"

\* _print_summary: success_rate, in whole per cent.
SuccessRate ==
    IF processed_count > 0
    THEN ((processed_count - error_count) * 100) \div processed_count
    ELSE 0

\* process_folder after a batch: remaining_count = len(unprocessed_images) -
\* total_processed, the number handed to display_eta.
RemainingCount(unprocessed_images, tp) == Len(unprocessed_images) - tp

\* _print_summary: the numbers of the final summary.
Summary ==
    [total |-> processed_count + skipped_count,
     processed |-> processed_count,
     skipped |-> skipped_count,
     succeeded |-> processed_count - error_count,
     errors |-> error_count]

\* ---------------------------------------------------------------- process_folder: a page
\* The top of the while loop: get_images_from_folder lists the page of start_index
\* and starts the download of every file of it; an empty listing ends the loop, and
\* _print_summary and return True follow.
ListPage ==
    /\ phase = "list"
    /\ LET page_token == GetPageToken(start_index)
           files == PageFiles(page_token)
       IN  IF files = {}
           THEN /\ Finish
                /\ UNCHANGED <<dl, listCount>>
           ELSE /\ phase' = "download"
                /\ UNCHANGED outVars
                /\ dl' = [i \in Items |->
                            IF i \in files THEN [st |-> "try", n |-> 0, t |-> 0] ELSE Idle]
                /\ listCount' = [listCount EXCEPT ![page_token] = Sat2(@)]
    /\ UNCHANGED <<envVars, diskVars, start_index, total_processed, processed_files,
                   processed_count, error_count, skipped_count, unprocessed, bi, taskVars,
                   run, faults, sinceReq, minGap, recCalls, itemFailed, otherFailed, prevRun,
                   crashIn, lastFlushed, loadedIds>>

\* _download_file_async: one attempt of one file completes.
DownloadAttempt(i) ==
    /\ phase = "download"
    /\ dl[i].st = "try"
    /\ \E r \in {"200", "status", "exception"} :
          /\ dl' = [dl EXCEPT ![i] = DownloadResult(dl[i], r)]
          /\ otherFailed' = (otherFailed \/ r # "200")
          /\ itemFailed' = (itemFailed \/ dl'[i].st = "fail")
          /\ IF r # "200" /\ dl[i].n = 0 THEN Fault ELSE NoFault
    /\ UNCHANGED <<envVars, diskVars, mgrVars, unprocessed, bi, taskVars,
                   run, sinceReq, minGap, recCalls, listCount, prevRun,
                   crashIn, lastFlushed, loadedIds, outVars>>

\* _download_file_async: asyncio.sleep(1) in the except branch is over.
DownloadRetry(i) ==
    /\ phase = "download"
    /\ dl[i].st = "sleep"
    /\ dl[i].t = 0
    /\ dl' = [dl EXCEPT ![i] = NextAttempt(dl[i])]
    /\ itemFailed' = (itemFailed \/ dl'[i].st = "fail")
    /\ UNCHANGED <<envVars, diskVars, mgrVars, unprocessed, bi, taskVars,
                   run, faults, sinceReq, minGap, recCalls, listCount, otherFailed, prevRun,
                   crashIn, lastFlushed, loadedIds, outVars>>

\* get_images_from_folder returns the downloaded images; process_folder filters
\* them.  No image, or none left by the filter, ends the loop.
GatherDownloads ==
    /\ phase = "download"
    /\ \A i \in Items : dl[i].st \in {"idle", "ok", "fail"}
    /\ LET Ok(i) == dl[i].st = "ok"
           images == SelectSeq(ItemSeq, Ok)
           unprocessed_images == FilterPage(images, processed_files, names)
       IN  /\ IF images = <<>> \/ unprocessed_images = <<>>
              THEN /\ Finish
                   /\ unprocessed' = <<>>
              ELSE /\ phase' = "dispatch"
                   /\ unprocessed' = unprocessed_images
                   /\ UNCHANGED outVars
           /\ skipped_count' =
                 IF images = <<>> THEN skipped_count
                 ELSE Min(skipped_count + Len(images) - Len(unprocessed_images), MaxSkipped)
    /\ bi' = 0
    /\ dl' = [i \in Items |-> Idle]
    /\ UNCHANGED <<envVars, diskVars, start_index, total_processed, processed_files,
                   processed_count, error_count, taskVars, histVars>>


\* ---------------------------------------------------------------- process_folder: a batch
\* tasks = [process_single_image(image) for image in batch]; asyncio.gather(*tasks)
StartBatch ==
    /\ phase = "dispatch"
    /\ SetLimiter(StartTasks(Limiter, Batch(unprocessed, bi)))
    /\ phase' = "batch"
    /\ UNCHANGED <<envVars, diskVars, start_index, total_processed, processed_files,
                   processed_count, error_count, skipped_count, pageVars, pauseLeft,
                   run, faults, listCount, itemFailed, otherFailed, prevRun, crashIn,
                   lastFlushed, loadedIds, outVars>>

\* _rate_limit: asyncio.sleep(delay) is over; _last_request_time is set and the
\* request is posted.
TaskWake(i) ==
    /\ phase = "batch"
    /\ task[i] = "sleep"
    /\ wake[i] = 0
    /\ SetLimiter(SendRequest(Limiter, i))
    /\ UNCHANGED <<envVars, diskVars, mgrVars, pageVars, pauseLeft,
                   run, faults, listCount, itemFailed, otherFailed, prevRun, crashIn,
                   lastFlushed, loadedIds, outVars>>

\* process_single_image: an item ends Failed (error_count += 1, return None).
ItemFails(i) ==
    /\ error_count' = Min(error_count + 1, MaxErrors)
    /\ task' = [task EXCEPT ![i] = "ret_none"]
    /\ itemFailed' = TRUE

\* Faulty variant of Record: the set is replaced by the id of the image.
RecordOverwrites(pf, pc, i) == [processed_files |-> {i}, processed_count |-> pc + 1]

\* process_single_image after save_image_data returned True:
\* self.processed_count += 1; self.processed_files.add(image["path"])
Record(pf, pc, i) == [processed_files |-> pf \cup {i}, processed_count |-> pc + 1]

\* rename_file succeeded: Drive holds the new name.
Renamed(i) == [names EXCEPT ![i] = NewName(IdentifyResult(BestMatch(i)))]

\* save_image_data succeeded: Firebase holds one more record of the image.
Saved(i) == [recorded EXCEPT ![i] = Sat2(@)]

\* The response of trace.moe arrives and process_single_image runs to its end:
\* rename_file and save_image_data do not suspend.
TaskResponse(i) ==
    /\ phase = "batch"
    /\ task[i] = "req"
    /\ \/ \* identify_image returns None: trace.moe has no match
          /\ i \in noMatch
          /\ ItemFails(i)
          /\ NoFault
          /\ UNCHANGED <<diskVars, processed_files, processed_count, lastFlushed, otherFailed>>
       \/ \* identify_image returns None (a bad status, an exception), or it
          \* returns a match and rename_file returns False
          /\ i \notin noMatch
          /\ ItemFails(i)
          /\ Fault
          /\ otherFailed' = TRUE
          /\ UNCHANGED <<diskVars, processed_files, processed_count, lastFlushed>>
       \/ \* save_image_data returns False
          /\ i \notin noMatch
          /\ ItemFails(i)
          /\ Fault
          /\ otherFailed' = TRUE
          /\ names' = Renamed(i)
          /\ UNCHANGED <<file, recorded, processed_files, processed_count, lastFlushed>>
       \/ \* the item is recorded, and save_progress is called
          /\ i \notin noMatch
          /\ names' = Renamed(i)
          /\ recorded' = Saved(i)
          /\ processed_count' = Record(processed_files, processed_count, i).processed_count
          /\ processed_files' = Record(processed_files, processed_count, i).processed_files
          /\ file' \in SaveProgress(file, processed_files', processed_count', error_count)
          /\ lastFlushed' = IF file'.kind = "json" THEN file'.ids ELSE lastFlushed
          /\ otherFailed' = (otherFailed \/ file' # ProgressData(processed_files',
                                                                 processed_count', error_count))
          /\ IF file' = ProgressData(processed_files', processed_count', error_count)
             THEN NoFault ELSE Fault
          /\ task' = [task EXCEPT ![i] = "ret_ok"]
          /\ UNCHANGED <<error_count, itemFailed>>
    /\ UNCHANGED <<envVars, phase, start_index, total_processed, skipped_count, pageVars,
                   wake, pauseLeft, sinceLast, run, sinceReq, minGap, recCalls, listCount,
                   prevRun, crashIn, loadedIds, outVars>>

\* Killed inside that segment.
KillInTask(i) ==
    /\ phase = "batch"
    /\ task[i] = "req"
    /\ i \notin noMatch
    /\ names' = Renamed(i)
    /\ \/ \* after rename_file
          /\ Dies("elsewhere", {Killed, InterruptUncaught})
          /\ UNCHANGED <<file, recorded, lastFlushed>>
       \/ \* after save_image_data, before progress.json is opened
          /\ recorded' = Saved(i)
          /\ Dies("elsewhere", {Killed, InterruptUncaught})
          /\ UNCHANGED <<file, lastFlushed>>
       \/ \* in save_progress, between open(..., 'w') and the end of json.dump
          /\ recorded' = Saved(i)
          /\ file' = TornFile
          /\ Dies("save_progress", {Killed, InterruptUncaught})
          /\ UNCHANGED lastFlushed

\* Faulty variant of JoinBatch: process_folder goes on as soon as one task of the
\* batch has returned.
JoinBatchNoBarrier ==
    /\ phase = "batch"
    /\ \E i \in Items : task[i] \in {"ret_ok", "ret_none"}
    /\ total_processed' = total_processed + Cardinality({i \in Items : task[i] = "ret_ok"})
    /\ task' = [i \in Items |-> IF task[i] \in {"ret_ok", "ret_none"} THEN "none" ELSE task[i]]
    /\ phase' = "pause"
    /\ pauseLeft' = TRACE_MOE_RATE_LIMIT
    /\ UNCHANGED <<envVars, diskVars, start_index, processed_files, processed_count,
                   error_count, skipped_count, pageVars, wake, sinceLast, histVars, outVars>>

\* asyncio.gather returns: the results are counted and process_folder sleeps
\* TRACE_MOE_RATE_LIMIT.
JoinBatch ==
    /\ phase = "batch"
    /\ \A i \in Items : task[i] \in {"none", "ret_ok", "ret_none"}
    /\ total_processed' = total_processed + Cardinality({i \in Items : task[i] = "ret_ok"})
    /\ task' = [i \in Items |-> "none"]
    /\ phase' = "pause"
    /\ pauseLeft' = TRACE_MOE_RATE_LIMIT
    /\ UNCHANGED <<envVars, diskVars, start_index, processed_files, processed_count,
                   error_count, skipped_count, pageVars, wake, sinceLast, histVars, outVars>>

\* The sleep is over: the next batch of the page, or save_progress and the next page.
NextBatch ==
    /\ phase = "pause"
    /\ pauseLeft = 0
    /\ IF bi + CONCURRENT_LIMIT < Len(unprocessed)
       THEN /\ bi' = bi + CONCURRENT_LIMIT
            /\ phase' = "dispatch"
            /\ UNCHANGED <<file, start_index, unprocessed, lastFlushed, otherFailed, faults>>
       ELSE /\ file' \in SaveProgress(file, processed_files, processed_count, error_count)
            /\ lastFlushed' = IF file'.kind = "json" THEN file'.ids ELSE lastFlushed
            /\ otherFailed' = (otherFailed \/ file' # ProgressData(processed_files,
                                                                   processed_count, error_count))
            /\ IF file' = ProgressData(processed_files, processed_count, error_count)
               THEN NoFault ELSE Fault
            /\ start_index' = Min(start_index + BATCH_SIZE, MaxStartPages * BATCH_SIZE)
            /\ phase' = "list"
            /\ bi' = 0
            /\ unprocessed' = <<>>
    /\ UNCHANGED <<envVars, names, recorded, total_processed, processed_files,
                   processed_count, error_count, skipped_count, dl, taskVars,
                   run, sinceReq, minGap, recCalls, listCount, itemFailed, prevRun,
                   crashIn, loadedIds, outVars>>

\* Killed in the save_progress that ends a page, between open and the end of json.dump.
KillInFlush ==
    /\ phase = "pause"
    /\ pauseLeft = 0
    /\ bi + CONCURRENT_LIMIT >= Len(unprocessed)
    /\ file' = TornFile
    /\ Dies("save_progress", {Killed, InterruptCaught})
    /\ UNCHANGED <<names, recorded, lastFlushed>>

\* ---------------------------------------------------------------- time
\* A sleep that is over and whose coroutine has not run yet.
TimerDue ==
    \/ \E i \in Items : dl[i].st = "sleep" /\ dl[i].t = 0
    \/ \E i \in Items : task[i] = "sleep" /\ wake[i] = 0
    \/ phase = "pause" /\ pauseLeft = 0

\* One unit of time passes while the event loop waits.
Tick ==
    /\ phase \in {"download", "batch", "pause"}
    /\ ~TimerDue
    /\ dl' = [i \in Items |-> IF dl[i].st = "sleep" THEN [dl[i] EXCEPT !.t = @ - 1] ELSE dl[i]]
    /\ wake' = [i \in Items |-> IF task[i] = "sleep" THEN wake[i] - 1 ELSE wake[i]]
    /\ pauseLeft' = IF phase = "pause" THEN pauseLeft - 1 ELSE pauseLeft
    /\ sinceLast' = Min(sinceLast + 1, TRACE_MOE_RATE_LIMIT)
    /\ sinceReq' = Min(sinceReq + 1, TRACE_MOE_RATE_LIMIT)
    /\ UNCHANGED <<envVars, diskVars, mgrVars, unprocessed, bi, task,
                   run, faults, minGap, recCalls, listCount, itemFailed, otherFailed, prevRun,
                   crashIn, lastFlushed, loadedIds, outVars>>

\* ---------------------------------------------------------------- specification
Next ==
    \/ Startup
    \/ ListPage
    \/ \E i \in Items : DownloadAttempt(i)
    \/ \E i \in Items : DownloadRetry(i)
    \/ GatherDownloads
    \/ StartBatch
    \/ \E i \in Items : TaskWake(i)
    \/ \E i \in Items : TaskResponse(i)
    \/ \E i \in Items : KillInTask(i)
    \/ JoinBatch
    \/ NextBatch
    \/ KillInFlush
    \/ Tick
    \/ Kill
    \/ Restart

Spec == Init /\ [][Next]_vars


\* A process started on a progress.json left by earlier work: any non-empty set of
\* ids of the folder, whatever the names of the images are now.  The earlier work
\* has used up all but one of the faults of the environment.
InitResume ==
    \E P \in (SUBSET (1..MaxItems)) \ {{}} :
        /\ InitFaults(ProgressData(P, Cardinality(P), 0), MaxFaults - 1)
        /\ P \subseteq 1..nItems

SpecResume == InitResume /\ [][Next]_vars

\* The event loop always runs a coroutine that can run, and time goes on: the
\* specification for what the program eventually does.  It starts in an environment
\* with one fault left.
InitFair == InitFaults(NoFile, MaxFaults - 1)

SpecFair == InitFair /\ [][Next]_vars /\ WF_vars(Next)

\* ---------------------------------------------------------------- observations
\* The page image i is listed on.
PageOf(i) == (i - 1) \div BATCH_SIZE

\* The per-item state machine of image i has left Pending and reached neither
\* Recorded nor Failed: its content is being fetched, or it is fetched and waits for
\* its batch, or its process_single_image task runs.
NonTerminal(i) ==
    \/ dl[i].st \in {"try", "sleep", "ok"}
    \/ task[i] \in {"sleep", "req"}
    \/ \E k \in DOMAIN unprocessed :
          /\ unprocessed[k] = i
          /\ k > bi + (IF phase = "dispatch" THEN 0 ELSE CONCURRENT_LIMIT)

\* The ids load_progress reads back from progress.json.
ReadBack == LoadProgress(file).processed_files

\* The images whose record reached Firebase.
RecordedIds == {i \in Items : recorded[i] > 0}

\* ---------------------------------------------------------------- claims

\* C1: every two consecutive recognition requests of a run start at least
\* TRACE_MOE_RATE_LIMIT time units apart, whatever the number of concurrent tasks.
C1_RequestsSpaced == minGap >= TRACE_MOE_RATE_LIMIT

\* C2: at no point are more than CONCURRENT_LIMIT items in a non-terminal state of
\* the per-item state machine, counted from the start of the content fetch.
C2_ConcurrencyBound == Cardinality({i \in Items : NonTerminal(i)}) <= CONCURRENT_LIMIT

\* C3: an image whose id is in processed_files, or was in the progress.json the
\* process loaded, is never submitted to identify_image.
C3_ProcessedNeverSubmitted ==
    [][\A i \in Items :
          (task[i] # "req" /\ task'[i] = "req")
              => (i \notin processed_files /\ i \notin loadedIds)]_vars

\* C3 witness: a run that loaded ids finished, having listed the page of a loaded
\* id without submitting it while it submitted another image of the folder.
C3_Witness ==
    /\ phase = "done"
    /\ \E i \in loadedIds : listCount[PageOf(i)] > 0 /\ recCalls[i] = 0
    /\ \E j \in Items : recCalls[j] > 0

C5_ReadBackIsRecorded == phase = "dead" => ReadBack = RecordedIds

\* C6: across runs separated by kills and restarts, save_image_data succeeds at
\* most once per image.
C6_RecordedAtMostOnce == \A i \in Items : recorded[i] <= 1

\* C6 witness: a process started after a kill that lost the id of a recorded image
\* has listed the page of that image and run to completion.
C6_Witness ==
    /\ prevRun = "killed"
    /\ phase = "done"
    /\ \E i \in Items : recorded[i] = 1 /\ i \notin loadedIds /\ listCount[PageOf(i)] > 0

\* C7: after a crash inside save_progress, progress.json still gives back every id
\* of the last completely written state.
C7_CrashKeepsFlushedState == crashIn = "save_progress" => lastFlushed \subseteq ReadBack

\* C8: first run, empty progress, k images without a match and no other failure:
\* error_count never passes k, and at the final summary processed_count = N - k,
\* error_count = k and progress.json holds exactly the N - k other ids.
C8_FinalSummaryCounts ==
    (run = 1 /\ faults = 0)
        => /\ error_count <= Cardinality(noMatch)
           /\ phase = "done" =>
                 /\ processed_count = nItems - Cardinality(noMatch)
                 /\ error_count = Cardinality(noMatch)
                 /\ ReadBack = Items \ noMatch

\* C9: each image is passed to identify_image at most once per run.
C9_SubmittedOncePerRun == \A i \in Items : recCalls[i] <= 1

\* C10: no page is listed and downloaded a second time in one run.
C10_NoPageListedTwice == \A p \in DOMAIN listCount : listCount[p] <= 1

\* C11: an image whose name matches the finished-name pattern when it is listed is
\* never submitted to identify_image, whether or not its id is in processed_files.
C11_FinishedNameNeverSubmitted ==
    [][\A i \in Items :
          (task[i] # "req" /\ task'[i] = "req") => ~IsAlreadyProcessed(names[i])]_vars

\* C11 witness: a run has finished that listed the page of an image with a finished
\* name and an id outside processed_files, did not submit it, and submitted another.
C11_Witness ==
    /\ phase = "done"
    /\ \E i \in Items :
          /\ IsAlreadyProcessed(names[i])
          /\ i \notin processed_files
          /\ listCount[PageOf(i)] > 0
          /\ recCalls[i] = 0
    /\ \E j \in Items : recCalls[j] > 0

\* C12: every item that ends Failed (its download ran out of retries, or its
\* process_single_image returned None after a request) adds exactly one to
\* error_count and stays out of processed_files.
C12_FailedCountsOnce ==
    [][\A i \in Items :
          (/\ \/ dl[i].st # "fail" /\ dl'[i].st = "fail"
              \/ task[i] = "req" /\ task'[i] = "ret_none"
           /\ error_count < MaxErrors)
              => (error_count' = error_count + 1 /\ i \notin processed_files')]_vars

\* C13: as long as nothing has failed to be written, progress.json is not written
\* while a batch runs, and when a batch is over and the next one starts it holds the
\* state in memory.
C13_FlushAfterBatchOnly ==
    [][/\ (phase = "batch" /\ phase' = "batch" /\ faults' = 0) => file' = file
       /\ (phase = "pause" /\ phase' = "dispatch" /\ faults = 0)
              => file' = ProgressData(processed_files, processed_count, error_count)]_vars

\* C14: every process_single_image task that has started and has not been collected
\* by asyncio.gather belongs to the current batch of the page: no task of a batch
\* starts before every task of the batch before it has ended.
C14_BatchBarrier ==
    \A i \in Items :
        task[i] # "none"
            => /\ phase = "batch"
               /\ \E k \in (bi + 1)..Min(bi + CONCURRENT_LIMIT, Len(unprocessed)) :
                     unprocessed[k] = i

\* C14 witness: the second batch of a page runs after a first batch that recorded
\* an image.
C14_Witness ==
    /\ phase = "batch"
    /\ bi > 0
    /\ total_processed > 0
    /\ \E i \in Items : task[i] = "req"

\* C15: once an item has failed inside process_single_image, the run still comes to
\* its final summary (unless the process is ended from outside).
C15_FailureDoesNotStopRun ==
    (\E i \in Items : task[i] = "ret_none" /\ recCalls[i] > 0)
        ~> (phase = "done" \/ phase = "dead")

\* C16: when the folder check fails, list_available_folders is called and the run
\* is over before any page is listed: nothing is downloaded or submitted, and the
\* Drive names, the Firebase records, progress.json, processed_files and the
\* counters stay as they were.
C16_AbortBeforeListing ==
    [][(phase' = "aborted" /\ cause' = "folder")
          => /\ shown' = "folders"
             /\ UNCHANGED <<diskVars, processed_files, processed_count, error_count>>
             /\ \A p \in DOMAIN listCount : listCount'[p] = 0
             /\ \A i \in Items : recCalls'[i] = 0 /\ dl'[i] = Idle /\ task'[i] = "none"]_vars

\* C16 witness: a second process, started on the progress of the first, was stopped
\* by the folder check.
C16_Witness ==
    /\ phase = "aborted"
    /\ cause = "folder"
    /\ run = 2
    /\ processed_files # {}

\* C17: a process that has ended has exit status 0 exactly when its run completed
\* or the user interrupted it.
C17_ExitCodes ==
    phase \in {"done", "dead", "aborted"}
        => (exit_code = 0 <=> cause \in {"done", "interrupt"})

\* C18: with an empty folder and no progress.json the run goes from the first
\* listing to the summary, every number of the summary is 0 and the exit status is 0.
C18_EmptyCollection ==
    nItems = 0
        => /\ phase \in {"start", "list", "done", "dead", "aborted"}
           /\ phase = "done"
                 => /\ Summary = [total |-> 0, processed |-> 0, skipped |-> 0,
                                   succeeded |-> 0, errors |-> 0]
                    /\ exit_code = 0
                    /\ file = NoFile

\* C18 witness: the run on an empty folder has printed its summary.
C18_Witness == nItems = 0 /\ phase = "done" /\ shown = "summary"

\* C19: a process started on a missing or unreadable progress.json starts with the
\* empty state, and a save_progress that does not write the file leaves the state
\* in memory as it is and the run going.
C19_ProgressFailureTolerated ==
    [][/\ (phase # "start" /\ phase' = "start" /\ file.kind # "json")
              => (processed_files' = {} /\ processed_count' = 0 /\ error_count' = 0)
       /\ \A i \in Items :
             (/\ task[i] = "req" /\ task'[i] = "ret_ok"
              /\ file' # ProgressData(processed_files', processed_count', error_count'))
                 => /\ phase' = "batch"
                    /\ processed_files' = processed_files \cup {i}
                    /\ processed_count' = processed_count + 1
                    /\ error_count' = error_count
       /\ (/\ phase = "pause" /\ phase' = "list"
           /\ file' # ProgressData(processed_files, processed_count, error_count))
              => UNCHANGED <<processed_files, processed_count, error_count>>]_vars

\* C19 witness: a second process that lost a recorded id to an unreadable
\* progress.json has recorded an image, could not write the file, and goes on.
C19_Witness ==
    /\ run = 2
    /\ phase = "pause"
    /\ file.kind = "torn"
    /\ processed_files # {}
    /\ \E i \in RecordedIds : i \notin processed_files

\* C20: the page loop of process_folder ends: every run comes to its summary,
\* unless it is stopped at startup or ended from outside.
C20_PageLoopTerminates == <>(phase \in {"done", "dead", "aborted"})

\* C21: in a run that completed and in which nothing but recognitions without a
\* match failed, every image that is still neither in processed_files nor named as
\* finished has been submitted: no page was left out.
C21_AllUnprocessedDispatched ==
    (phase = "done" /\ ~otherFailed)
        => \A i \in Items : Unprocessed(i, processed_files, names) => recCalls[i] > 0

\* C22 as stated: an image that was renamed and has no record is not treated as
\* processed: the filter of process_folder keeps it.
C22_RenamedUnrecordedStaysEligible ==
    \A i \in Items :
        (names[i] # RawName /\ recorded[i] = 0 /\ i \notin processed_files)
            => Unprocessed(i, processed_files, names)

\* C22 amended: an image that was renamed is never submitted to identify_image
\* again and never renamed again, whether or not its record was saved.
C22_RenamedNeverResubmitted ==
    [][\A i \in Items :
          /\ (task[i] # "req" /\ task'[i] = "req") => names[i] = RawName
          /\ names'[i] # names[i] => names[i] = RawName]_vars

\* C22 witness: the run after a completed run in which save_image_data failed for a
\* renamed image has listed the page of that image and completed without submitting it.
C22_Witness ==
    /\ prevRun = "failed"
    /\ phase = "done"
    /\ \E i \in Items :
          /\ names[i] # RawName
          /\ recorded[i] = 0
          /\ listCount[PageOf(i)] > 0
          /\ recCalls[i] = 0

\* C23: every task that ends adds exactly its own result to the shared state, and
\* nothing else changes it while the batch runs; in a first run, when the tasks of
\* a batch have ended, processed_count has grown by the number of recorded images
\* of the batch and processed_files holds exactly the recorded images.
C23_NoLostUpdate ==
    [][/\ (run' = 1 /\ phase' = "batch")
             => /\ processed_count' = total_processed'
                                          + Cardinality({i \in Items : task'[i] = "ret_ok"})
                /\ processed_files' = {i \in Items : recorded'[i] > 0}
       /\ (phase = "batch" /\ phase' = "batch")
             => \A i \in Items :
                   /\ (task[i] = "req" /\ task'[i] = "ret_ok")
                         => /\ processed_count' = processed_count + 1
                            /\ processed_files' = processed_files \cup {i}
                            /\ error_count' = error_count
                   /\ (task[i] = "req" /\ task'[i] = "ret_none")
                         => /\ error_count' = Min(error_count + 1, MaxErrors)
                            /\ processed_count' = processed_count
                            /\ processed_files' = processed_files
                   /\ (\A j \in Items : task[j] = "req" => task'[j] = "req")
                         => UNCHANGED <<processed_count, processed_files, error_count>>]_vars

\* C23 witness: the tasks of a batch of a first run have all ended, one recorded
\* and one failed, after an earlier image was recorded.
C23_Witness ==
    /\ run = 1
    /\ phase = "batch"
    /\ \A i \in Items : task[i] \in {"none", "ret_ok", "ret_none"}
    /\ \E i, j \in Items : task[i] = "ret_ok" /\ task[j] = "ret_none" /\ recCalls[j] > 0
    /\ Cardinality(processed_files) > 1

\* C24: the download of an image starts only for an image the filter keeps: one
\* whose id is outside processed_files and whose name is not a finished name.
C24_FetchAfterFilter ==
    [][\A i \in Items :
          (dl[i].st = "idle" /\ dl'[i].st = "try")
              => Unprocessed(i, processed_files, names)]_vars

\* C25: a download makes at most MAX_RETRIES attempts, an attempt after a failed
\* one starts only when the retry delay has passed, and no attempt follows a
\* successful one.
C25_RetriesSpaced ==
    [][\A i \in Items :
          /\ dl'[i].n < MAX_RETRIES
          /\ (dl'[i].st = "try" /\ dl'[i].n > 0)
                => (dl[i].st = "sleep" /\ dl[i].t = 0 /\ dl'[i].n = dl[i].n + 1)
          /\ dl[i].st = "ok" => dl'[i].st \in {"ok", "idle"}]_vars

\* C26: in the final summary, succeeded is the number of recorded images and is
\* not negative, and the success rate lies between 0 and 100.
C26_SummarySucceeded ==
    phase = "done"
        => /\ Summary.succeeded = Cardinality(RecordedIds)
           /\ Summary.succeeded >= 0
           /\ SuccessRate \in 0..100

\* C27: the remaining count handed to display_eta after a batch is never negative.
C27_RemainingNotNegative ==
    [][(phase = "batch" /\ phase' = "pause")
          => RemainingCount(unprocessed, total_processed') >= 0]_vars

====
